---- MODULE Spec2Model ----
(***************************************************************************)
(* A model of the three scripts of ModernCppExamples:                      *)
(*   src/SearchAnagramsFromDictionary.py   the anagram grouper             *)
(*   src/scripts/update_documentation.py   the README section updater      *)
(*   src/test_pybind.py                    the native-extension smoke test *)
(*                                                                         *)
(* Text is modelled character by character: a Python str is a sequence of  *)
(* characters, a character is a TLA+ string naming it ("a", "#", "\n";     *)
(* "long_s" names U+017F).  Long literal texts of the scripts (the two     *)
(* section markers, the introduction lines, the default descriptions) are  *)
(* abbreviated to a few characters each; their structure (what is a prefix *)
(* of what, where the newlines are) is kept.                               *)
(***************************************************************************)
EXTENDS Integers, Sequences, FiniteSets, TLC

VARIABLES
    script,          \* which script this process runs
    pc,              \* position in that script
    exit_code,       \* process exit status, -1 while running
    stdout,          \* tags of what was printed to standard output, in order
    stderr,          \* tags of what was printed to the error stream, in order
    caught,          \* failures met so far in this run (caught exceptions, failed checks)
    src_exists,      \* project_root/src exists
    readme_exists,   \* project_root/README.md exists
    dir,             \* the entries of src/
    readme,          \* content of README.md on disk
    readme_at_start, \* content of README.md when the current run started
    readme_writes,   \* how often README.md was opened for writing in this run
    template_file,   \* INDEX_UPDATE_TEMPLATE.txt: <<>> when absent, else <<content>>
    new_files,       \* main's new_files
    update_result,   \* what update_readme returned: "none", "true", "false"
    events,          \* the file operations of this run, in order
    prev_success,    \* an earlier run of the updater ended with update_readme True
    Pairs,           \* the anagram script's Pairs, as a sequence of <<key, value>>
    Anagrams,        \* the anagram script's Anagrams, as a sequence of <<key, list>>
    idx,             \* how many items of Pairs the grouping loop has handled
    import_ok,       \* import pybind_example succeeds
    numpy_ok,        \* import numpy succeeds
    calls            \* the demonstration calls made so far by the smoke test

vars == <<script, pc, exit_code, stdout, stderr, caught, src_exists,
          readme_exists, dir, readme, readme_at_start, readme_writes,
          template_file, new_files, update_result, events, prev_success,
          Pairs, Anagrams, idx, import_ok, numpy_ok, calls>>

\* ------------------------------------------------------------------ bounds

\* at most this many entries in src/
MaxFiles == 3
\* the README is made of at most this many chunks
MaxChunks == 3
\* the updater is not run again once README.md is longer than this
MaxReadmeLen == 250

\* ------------------------------------------------------------- characters

Range(s) == {s[i] : i \in 1..Len(s)}

LowerLetters ==
    <<"a","b","c","d","e","f","g","h","i","j","k","l","m",
      "n","o","p","q","r","s","t","u","v","w","x","y","z">>

UpperLetters ==
    <<"A","B","C","D","E","F","G","H","I","J","K","L","M",
      "N","O","P","Q","R","S","T","U","V","W","X","Y","Z">>

Digits == <<"0","1","2","3","4","5","6","7","8","9">>

IndexOf(s, c) == CHOOSE i \in 1..Len(s) : s[i] = c

LowerLetterSet == Range(LowerLetters)
UpperLetterSet == Range(UpperLetters)
DigitSet == Range(Digits)

\* the position of each lower-case letter, upper-case letter and digit in its row
LowerIndex == [c \in LowerLetterSet |-> IndexOf(LowerLetters, c)]
UpperIndex == [c \in UpperLetterSet |-> IndexOf(UpperLetters, c)]
DigitIndex == [c \in DigitSet |-> IndexOf(Digits, c)]

\* ord(c)
CodePoint(c) ==
    IF c \in LowerLetterSet THEN 96 + LowerIndex[c]
    ELSE IF c \in UpperLetterSet THEN 64 + UpperIndex[c]
    ELSE IF c \in DigitSet THEN 47 + DigitIndex[c]
    ELSE CASE c = "\n" -> 10
           [] c = " " -> 32
           [] c = "#" -> 35
           [] c = "(" -> 40
           [] c = ")" -> 41
           [] c = "*" -> 42
           [] c = "-" -> 45
           [] c = "." -> 46
           [] c = "/" -> 47
           [] c = "[" -> 91
           [] c = "]" -> 93
           [] c = "_" -> 95
           [] c = "long_s" -> 383

\* str.lower() of one character; U+017F has no lower-case mapping
LowerChar(c) ==
    IF c \in UpperLetterSet THEN LowerLetters[UpperIndex[c]] ELSE c

\* str.upper() of one character; U+017F upper-cases to "S"
UpperChar(c) ==
    IF c \in LowerLetterSet THEN UpperLetters[LowerIndex[c]]
    ELSE IF c = "long_s" THEN "S"
    ELSE c

\* the regular expression class \w
IsWordChar(c) ==
    \/ c \in LowerLetterSet
    \/ c \in UpperLetterSet
    \/ c \in DigitSet
    \/ c = "_"
    \/ c = "long_s"

\* ---------------------------------------------------------------- strings

\* s.lower()
Lower(s) == [i \in 1..Len(s) |-> LowerChar(s[i])]

\* a < b for two str, by code point
StrLess(a, b) ==
    \E k \in 1..(Len(a) + 1) :
        /\ k <= Len(b)
        /\ \A j \in 1..(k - 1) : a[j] = b[j]
        /\ \/ k = Len(a) + 1
           \/ CodePoint(a[k]) < CodePoint(b[k])

\* how a slice reads the index i of s: a negative index counts from the end,
\* and the result is clipped to 0..len(s)
ClipIndex(s, i) ==
    IF i < 0 THEN (IF Len(s) + i < 0 THEN 0 ELSE Len(s) + i)
    ELSE IF i > Len(s) THEN Len(s)
    ELSE i

\* s[lo:hi]
Slice(s, lo, hi) == SubSeq(s, ClipIndex(s, lo) + 1, ClipIndex(s, hi))

\* pat occurs in s at the 0-based index i
OccursAt(s, pat, i) ==
    /\ i >= 0
    /\ i + Len(pat) <= Len(s)
    /\ \A j \in 1..Len(pat) : s[i + j] = pat[j]

\* the indices where pat occurs in s
Occurrences(s, pat) == {i \in 0..(Len(s) - Len(pat)) : OccursAt(s, pat, i)}

\* s.find(pat): the lowest index where pat occurs, -1 when it does not
Find(s, pat) ==
    LET hits == Occurrences(s, pat)
    IN  IF hits = {} THEN -1 ELSE CHOOSE i \in hits : \A j \in hits : i <= j

\* s.endswith(suffix)
EndsWith(s, suffix) ==
    /\ Len(suffix) <= Len(s)
    /\ SubSeq(s, Len(s) - Len(suffix) + 1, Len(s)) = suffix

RECURSIVE Join(_, _)
\* sep.join(list)
Join(list, sep) ==
    IF list = <<>> THEN <<>>
    ELSE IF Len(list) = 1 THEN list[1]
    ELSE list[1] \o sep \o Join(Tail(list), sep)

RECURSIVE DecimalDigits(_)
DecimalDigits(n) ==
    IF n < 10 THEN <<Digits[n + 1]>>
    ELSE Append(DecimalDigits(n \div 10), Digits[(n % 10) + 1])

\* str(n) for n >= 0
Str(n) == DecimalDigits(n)

\* ------------------------------------------------- the files of the updater

\* An entry of src/: its name and what extract_file_description's regular
\* expressions find in its text.  readable: open() and read() succeed;
\* block: the first kept line of the first /* */ comment (<<>>: none);
\* line: the text of the first // comment (<<>>: none); namespaces, classes,
\* functions: what the three findall calls return.
DirEntry(name, readable, block, line, namespaces, classes, functions) ==
    [name |-> name, readable |-> readable, block |-> block, line |-> line,
     namespaces |-> namespaces, classes |-> classes, functions |-> functions]

ExtCpp == <<".","c","p","p">>
ExtCppm == <<".","c","p","p","m">>

start_marker == <<"#","#"," ","clipboard">>
end_marker == <<"#","#"," ","crane">>

\* The entries src/ is drawn from: a plain source file; a module file with
\* an upper-case first letter, both kinds of comment and key items; a file
\* whose first character is U+017F and whose first // comment is the text of
\* the end marker; a file that cannot be read, with a "-" in its name; a
\* header.  No two names are equal up to case.
EntryUniverse ==
    { DirEntry(<<"s">> \o ExtCpp, TRUE, <<>>, <<>>, <<>>, <<>>, <<>>),
      DirEntry(<<"T">> \o ExtCppm, TRUE, <<"d","1">>, <<"d","2">>,
               << <<"n">>, <<"n">> >>, << <<"k">> >>, << <<"f">> >>),
      DirEntry(<<"long_s">> \o ExtCpp, TRUE, <<>>, end_marker, <<>>, <<>>, << <<"g">> >>),
      DirEntry(<<"a","-","b">> \o ExtCpp, FALSE, <<"d","4">>, <<>>, <<>>, << <<"k">> >>, <<>>),
      DirEntry(<<"n",".","h">>, TRUE, <<>>, <<>>, <<>>, <<>>, <<>>) }

\* the texts a README is made of: the two marker lines, and an ordinary
\* heading followed by a line that links two source files
ChunkUniverse ==
    { start_marker \o <<"\n">>,
      end_marker \o <<"\n">>,
      <<"#","#"," ","x","\n">>
        \o <<"[">> \o <<"s">> \o ExtCpp \o <<"]"," ","[">> \o <<"a","-","b">> \o ExtCpp \o <<"]","\n">> }

RECURSIVE Flatten(_)
Flatten(chunks) ==
    IF chunks = <<>> THEN <<>> ELSE Head(chunks) \o Flatten(Tail(chunks))

\* ------------------------------------------- extract_file_description

\* description[:100] keeps at most this many characters
DescMax == 100

Truncate(s, n) == IF Len(s) <= n THEN s ELSE SubSeq(s, 1, n)

DescUnreadable == <<"C","+","+">>
DescDefault == <<"M","o","d">>

\* list[:n]
Prefix(list, n) == IF Len(list) <= n THEN list ELSE SubSeq(list, 1, n)

\* the elements of a set in the order Python iterates it, which the language
\* leaves open; the sets here hold at most one element
SetOrder(S) ==
    CHOOSE q \in [1..Cardinality(S) -> S] : \A x \in S : \E i \in 1..Cardinality(S) : q[i] = x

\* f"{label}{', '.join(set(matches[:3]))}"
KeyItem(label, matches) ==
    label \o Join(SetOrder(Range(Prefix(matches, 3))), <<","," ">>)

\* the description extract_file_description returns
Description(f) ==
    IF ~f.readable THEN DescUnreadable
    ELSE LET fromBlock == Truncate(f.block, DescMax)
             found == IF fromBlock # <<>> THEN fromBlock ELSE Truncate(f.line, DescMax)
         IN  IF found = <<>> THEN DescDefault ELSE found

\* the key_items extract_file_description returns
KeyItems(f) ==
    IF ~f.readable THEN <<>>
    ELSE (IF f.namespaces # <<>> THEN <<KeyItem(<<"N",":"," ">>, f.namespaces)>> ELSE <<>>)
         \o (IF f.classes # <<>> THEN <<KeyItem(<<"C",":"," ">>, f.classes)>> ELSE <<>>)
         \o (IF f.functions # <<>> THEN <<KeyItem(<<"F",":"," ">>, f.functions)>> ELSE <<>>)

\* extract_file_description prints its warning for this file
ExtractWarns(f) == ~f.readable

\* ------------------------------------------------- get_all_source_files

\* src_dir.glob('*.cpp') and src_dir.glob('*.cppm')
Globbed(d) == {f \in d : EndsWith(f.name, ExtCpp) \/ EndsWith(f.name, ExtCppm)}

\* the sort key of get_all_source_files
SortKey(f) == Lower(f.name)

RECURSIVE SortFiles(_)
\* files.sort(key=lambda p: p.name.lower())
SortFiles(S) ==
    IF S = {} THEN <<>>
    ELSE LET least == CHOOSE f \in S : \A g \in S : ~StrLess(SortKey(g), SortKey(f))
         IN  <<least>> \o SortFiles(S \ {least})

get_all_source_files(d) == SortFiles(Globbed(d))

\* ---------------------------------------- generate_alphabetical_section

\* f"{file_number}. **[{filename}]({rel_path})**"
EntryLine(file_number, filename) ==
    Str(file_number) \o <<"."," ","*","*","[">> \o filename \o <<"]","(">>
        \o <<"s","r","c","/">> \o filename \o <<")","*","*">>

\* f"   - {text}"
BulletLine(text) == <<" "," "," ","-"," ">> \o text

\* f"### {first_letter}\n"
LetterHeading(first_letter) == <<"#","#","#"," ">> \o <<first_letter>> \o <<"\n">>

RECURSIVE BulletLines(_)
BulletLines(items) ==
    IF items = <<>> THEN <<>> ELSE <<BulletLine(Head(items))>> \o BulletLines(Tail(items))

RECURSIVE LoopOutput(_, _, _)
\* what the loop over files appends to output from file i on; current_letter
\* is "None" before the first file
LoopOutput(files, i, current_letter) ==
    IF i > Len(files) THEN <<>>
    ELSE LET filename == files[i].name
             first_letter == UpperChar(filename[1])
             heading ==
                 IF first_letter # current_letter
                 THEN (IF current_letter # "None" THEN << <<>> >> ELSE <<>>)
                      \o <<LetterHeading(first_letter)>>
                 ELSE <<>>
             entry ==
                 <<EntryLine(i, filename), BulletLine(Description(files[i]))>>
                 \o BulletLines(Prefix(KeyItems(files[i]), 2))
                 \o << <<>> >>
         IN  heading \o entry \o LoopOutput(files, i + 1, first_letter)

\* mutant: the section is generated without its heading line
SectionOutput_NoMarker(d) ==
    << <<"B"," ">>, <<"E","\n">> >>
    \o LoopOutput(get_all_source_files(d), 1, "None")

\* the list output of generate_alphabetical_section
SectionOutput(d) ==
    << start_marker \o <<"\n">>, <<"B"," ">>, <<"E","\n">> >>
    \o LoopOutput(get_all_source_files(d), 1, "None")

generate_alphabetical_section(d) == Join(SectionOutput(d), <<"\n">>)

\* ------------------------------------------------------ check_new_files

\* the regular expression \w+\.(?:cpp|cppm) matches all of s
IsSourceName(s) ==
    \E k \in 2..Len(s) :
        /\ \A m \in 1..(k - 1) : IsWordChar(s[m])
        /\ SubSeq(s, k, Len(s)) \in {ExtCpp, ExtCppm}

RECURSIVE ClosingBracket(_, _)
\* the index of the first "]" after index i, 0 when there is none
ClosingBracket(content, i) ==
    IF i >= Len(content) THEN 0
    ELSE IF content[i + 1] = "]" THEN i + 1
    ELSE ClosingBracket(content, i + 1)

\* the strings re.findall(r'\[(\w+\.(?:cpp|cppm))\]', content) returns: no
\* match holds a bracket inside, so matches never overlap and each "[" that
\* starts one ends at the next "]"
ReadmeFiles(content) ==
    { SubSeq(content, i + 1, ClosingBracket(content, i) - 1) :
        i \in { p \in 1..Len(content) :
                  /\ content[p] = "["
                  /\ ClosingBracket(content, p) # 0
                  /\ IsSourceName(SubSeq(content, p + 1, ClosingBracket(content, p) - 1)) } }

RECURSIVE SortNames(_)
\* sorted(names)
SortNames(S) ==
    IF S = {} THEN <<>>
    ELSE LET least == CHOOSE a \in S : \A b \in S : ~StrLess(b, a)
         IN  <<least>> \o SortNames(S \ {least})

\* what check_new_files returns when README.md can be read
NewFiles(d, content) ==
    SortNames({f.name : f \in Globbed(d)} \ ReadmeFiles(content))

\* -------------------------------------------------------- update_readme

\* the content update_readme writes, given both markers were found
NewContent(content, d) ==
    LET start_idx == Find(content, start_marker)
        end_idx == Find(content, end_marker)
    IN  Slice(content, 0, start_idx)
        \o generate_alphabetical_section(d)
        \o <<"\n","-","-","-","\n","\n">>
        \o Slice(content, end_idx, Len(content))

\* mutant: the check of line 127 tests the start marker only
MarkersFound_OnlyStart(content) == ~(Find(content, start_marker) = -1)

MarkersFound(content) ==
    ~(Find(content, start_marker) = -1 \/ Find(content, end_marker) = -1)

\* ---------------------------------------------- generate_index_template

\* the entry of src/ that src_dir / filename names
EntryNamed(d, filename) == CHOOSE f \in d : f.name = filename

\* what the loop of generate_index_template appends for one file
TemplateLines(f) ==
    << <<"\n","#","#","#"," ">> \o f.name,
       <<"-"," ","F"," ","[">> \o f.name \o <<"]","(","s","r","c","/">> \o f.name \o <<")">>,
       <<"-"," ","D"," ">> \o Description(f),
       <<"-"," ","T">>, <<"-"," ","S">>,
       <<" "," ","-"," ","1">>, <<" "," ","-"," ","2">>, <<" "," ","-"," ","3">>,
       <<" "," ","-"," ","4">>, <<" "," ","-"," ","5">>, <<" "," ","-"," ","6">> >>
    \o (IF KeyItems(f) # <<>>
        THEN << <<"-"," ","K"," ">> \o Join(KeyItems(f), <<","," ">>) >>
        ELSE <<>>)

RECURSIVE TemplateLoop(_, _)
TemplateLoop(names, d) ==
    IF names = <<>> THEN <<>>
    ELSE TemplateLines(EntryNamed(d, Head(names))) \o TemplateLoop(Tail(names), d)

generate_index_template(names, d) ==
    IF names = <<>> THEN <<>>
    ELSE Join(<< <<"\n","=">>, <<"N","E","W">>, <<"=">>, <<"\n","A","d","d","\n">> >>
              \o TemplateLoop(names, d)
              \o << <<"\n","=">>, <<"C","o","p","y">>, <<"=","\n">> >>,
              <<"\n">>)

\* the warnings the extract_file_description calls print for these entries
ExtractWarnings(files) ==
    [i \in 1..Len(SelectSeq(files, ExtractWarns)) |-> "warn_could_not_read"]

RECURSIVE EntriesNamed(_, _)
EntriesNamed(names, d) ==
    IF names = <<>> THEN <<>>
    ELSE <<EntryNamed(d, Head(names))>> \o EntriesNamed(Tail(names), d)

\* --------------------------------------------------- the anagram grouper

mDictionary ==
    << <<"a","c","t">>, <<"a","n","t">>, <<"a","r","t">>, <<"b","a","t">>,
       <<"b","e","t">>, <<"b","o","s","s">>, <<"c","a","t">>, <<"c","a","p">>,
       <<"c","o","p">>, <<"d","e","a","r">>, <<"d","o","g">>, <<"d","i","p">>,
       <<"e","a","r">>, <<"e","n","d">>, <<"e","e","l">>, <<"f","a","d">>,
       <<"f","a","t">>, <<"f","o","g">>, <<"g","a","p">>, <<"g","o","d">>,
       <<"h","a","t">>, <<"h","i","t">>, <<"h","o","t">>, <<"i","n","k">>,
       <<"i","r","k">>, <<"j","o","t">>, <<"j","a","b">>, <<"l","a","p">>,
       <<"l","i","p">>, <<"l","o","t">>, <<"m","a","n">>, <<"n","a","n">>,
       <<"n","a","t">>, <<"n","e","t">>, <<"p","a","t">>, <<"p","e","t">>,
       <<"t","a","p">>, <<"t","a","r">>, <<"t","e","n">>, <<"r","a","t">>,
       <<"w","o","o">>, <<"y","o","o">>, <<"z","o","o">> >>

RECURSIVE InsertChar(_, _)
InsertChar(c, sorted) ==
    IF sorted = <<>> THEN <<c>>
    ELSE IF CodePoint(c) <= CodePoint(Head(sorted)) THEN <<c>> \o sorted
    ELSE <<Head(sorted)>> \o InsertChar(c, Tail(sorted))

\* mutant: the word itself is taken as its signature
SortChars_Unsorted(x) == x

RECURSIVE SortChars(_)
\* ''.join(sorted(x))
SortChars(x) == IF x = <<>> THEN <<>> ELSE InsertChar(Head(x), SortChars(Tail(x)))

\* {x: ''.join(sorted(x)) for x in words} as a sequence of <<key, value>> in
\* insertion order: a word that comes again keeps the place of its first
\* occurrence, and its value is the same each time
PairsFrom(words) ==
    LET firsts == {i \in 1..Len(words) : \A j \in 1..(i - 1) : words[j] # words[i]}
        nth(k) == CHOOSE i \in firsts : Cardinality({j \in firsts : j < i}) = k - 1
    IN  [k \in 1..Cardinality(firsts) |-> <<words[nth(k)], SortChars(words[nth(k)])>>]

\* Anagrams.setdefault(v, []).append(k)
SetDefaultAppend(d, v, k) ==
    IF \E i \in 1..Len(d) : d[i][1] = v
    THEN [i \in 1..Len(d) |-> IF d[i][1] = v THEN <<v, Append(d[i][2], k)>> ELSE d[i]]
    ELSE Append(d, <<v, <<k>> >>)

\* ------------------------------------------------------- the smoke test

\* the calls into pybind_example each section of main makes, in order
SectionCalls ==
    << <<"add", "multiply", "multiply", "divide_with_remainder", "greet">>,
       <<"square_elements", "count_words">>,
       <<"Vector2D", "Vector2D", "Vector2D.length", "Vector2D.__add__",
         "Vector2D.__mul__", "Vector2D.x", "Vector2D.zero">>,
       <<"Circle", "Rectangle", "Circle", "get_name", "area", "get_name", "area",
         "get_name", "area">>,
       <<"process_with_callback", "process_with_callback", "integrate", "integrate">>,
       <<"SensorProcessor", "add_reading", "add_reading", "add_reading", "add_reading",
         "add_reading", "get_reading_count", "process_readings", "filter_readings",
         "filter_readings">>,
       <<"numpy_square", "matrix_multiply">>,
       <<"create_shared_resource", "get_name", "get_id">> >>

SectionPc ==
    <<"section1", "section2", "section3", "section4", "section5", "section6",
      "section7", "section8", "finish">>

\* what a call into the native module does: "returns" or "raises".  The
\* module is built from Pybind11Example.cpp; the specification has every
\* demonstration call complete.
NativeOutcome(call) == "returns"

\* the calls of a section that are made: all of them, or those up to and
\* including the first that raises
CallsMade(section_calls) ==
    IF \A i \in 1..Len(section_calls) : NativeOutcome(section_calls[i]) = "returns"
    THEN section_calls
    ELSE SubSeq(section_calls, 1,
                CHOOSE i \in 1..Len(section_calls) :
                    /\ NativeOutcome(section_calls[i]) = "raises"
                    /\ \A j \in 1..(i - 1) : NativeOutcome(section_calls[j]) = "returns")

SectionCompletes(section_calls) ==
    \A i \in 1..Len(section_calls) : NativeOutcome(section_calls[i]) = "returns"

\* ------------------------------------------------------------ initial states

ChunkSeqs == UNION {[1..n -> ChunkUniverse] : n \in 0..MaxChunks}

Dirs == {d \in SUBSET EntryUniverse : Cardinality(d) <= MaxFiles}

anagramVars == <<Pairs, Anagrams, idx>>
smokeVars == <<import_ok, numpy_ok, calls>>
envVars == <<src_exists, readme_exists, dir>>

updaterVars ==
    <<envVars, readme, readme_at_start, readme_writes, template_file, new_files,
      update_result, events, prev_success>>

\* a process about to run: nothing printed, no exit status
Fresh ==
    /\ exit_code = -1
    /\ stdout = <<>>
    /\ stderr = <<>>
    /\ caught = {}

UpdaterIdle ==
    /\ src_exists = FALSE
    /\ readme_exists = FALSE
    /\ dir = {}
    /\ readme = <<>>
    /\ readme_at_start = <<>>
    /\ readme_writes = 0
    /\ template_file = <<>>
    /\ new_files = <<>>
    /\ update_result = "none"
    /\ events = <<>>
    /\ prev_success = FALSE

AnagramIdle == Pairs = <<>> /\ Anagrams = <<>> /\ idx = 0

SmokeIdle == import_ok = FALSE /\ numpy_ok = FALSE /\ calls = <<>>

\* update_documentation.py is started in a project: src/ and README.md may be
\* missing; README.md holds any text
InitUpdater ==
    /\ script = "updater"
    /\ pc = "start"
    /\ Fresh
    /\ src_exists \in BOOLEAN
    /\ readme_exists \in BOOLEAN
    /\ dir \in (IF src_exists THEN Dirs ELSE {{}})
    /\ readme \in (IF readme_exists THEN {Flatten(c) : c \in ChunkSeqs} ELSE {<<>>})
    /\ readme_at_start = readme
    /\ readme_writes = 0
    /\ template_file = <<>>
    /\ new_files = <<>>
    /\ update_result = "none"
    /\ events = <<>>
    /\ prev_success = FALSE
    /\ AnagramIdle
    /\ SmokeIdle

InitAnagram ==
    /\ script = "anagram"
    /\ pc = "pairs"
    /\ Fresh
    /\ UpdaterIdle
    /\ AnagramIdle
    /\ SmokeIdle

\* test_pybind.py is started: the native module and numpy may be missing
InitSmoke ==
    /\ script = "smoke"
    /\ pc = "import"
    /\ Fresh
    /\ UpdaterIdle
    /\ AnagramIdle
    /\ import_ok \in BOOLEAN
    /\ numpy_ok \in BOOLEAN
    /\ calls = <<>>

Init == InitUpdater \/ InitAnagram \/ InitSmoke

\* ------------------------------------------------------- updater: main

\* sys.exit(main()) with main returning code
Exit(code) ==
    /\ exit_code' = code
    /\ pc' = "exit"

\* main, lines 225-227: src/ is missing
MainSrcMissing ==
    /\ script = "updater" /\ pc = "start"
    /\ ~src_exists
    /\ stderr' = Append(stderr, "src_not_found")
    /\ caught' = caught \cup {"src_missing"}
    /\ Exit(1)
    /\ UNCHANGED <<script, stdout, envVars, readme, readme_at_start, readme_writes,
                   template_file, new_files, update_result, events, prev_success,
                   anagramVars, smokeVars>>

\* main, lines 229-231: README.md is missing
MainReadmeMissing ==
    /\ script = "updater" /\ pc = "start"
    /\ src_exists
    /\ ~readme_exists
    /\ stderr' = Append(stderr, "readme_not_found")
    /\ caught' = caught \cup {"readme_missing"}
    /\ Exit(1)
    /\ UNCHANGED <<script, stdout, envVars, readme, readme_at_start, readme_writes,
                   template_file, new_files, update_result, events, prev_success,
                   anagramVars, smokeVars>>

\* main, line 234 to 242, check_new_files reading README.md
MainCheckNewFiles ==
    /\ script = "updater" /\ pc = "start"
    /\ src_exists
    /\ readme_exists
    /\ new_files' = NewFiles(dir, readme)
    /\ events' = Append(events, "read_readme")
    /\ stdout' = Append(stdout, IF new_files' # <<>> THEN "found_new" ELSE "no_new")
    /\ pc' = "update"
    /\ UNCHANGED <<script, exit_code, stderr, caught, envVars, readme,
                   readme_at_start, readme_writes, template_file, update_result,
                   prev_success, anagramVars, smokeVars>>

\* mutant: check_new_files ends the process when README.md cannot be read
MainCheckNewFilesUnreadable_Exits ==
    /\ script = "updater" /\ pc = "start"
    /\ src_exists
    /\ readme_exists
    /\ new_files' = <<>>
    /\ stderr' = Append(stderr, "warn_could_not_check")
    /\ caught' = caught \cup {"check_new_files_read"}
    /\ Exit(1)
    /\ UNCHANGED <<script, stdout, envVars, readme, readme_at_start,
                   readme_writes, template_file, update_result, events, prev_success,
                   anagramVars, smokeVars>>

\* main, line 234 to 242, check_new_files failing to read README.md: the
\* exception is caught (lines 171-173) and [] returned
MainCheckNewFilesUnreadable ==
    /\ script = "updater" /\ pc = "start"
    /\ src_exists
    /\ readme_exists
    /\ new_files' = <<>>
    /\ stderr' = Append(stderr, "warn_could_not_check")
    /\ caught' = caught \cup {"check_new_files_read"}
    /\ stdout' = Append(stdout, "no_new")
    /\ pc' = "update"
    /\ UNCHANGED <<script, exit_code, envVars, readme, readme_at_start,
                   readme_writes, template_file, update_result, events, prev_success,
                   anagramVars, smokeVars>>

\* mutant: main goes on to return 0 after update_readme returned False
UpdateFailed_ReturnsZero ==
    /\ update_result' = "false"
    /\ stdout' = Append(stdout, "failed_to_update")
    /\ Exit(0)

\* main, lines 246-250 after update_readme returned False
UpdateFailed ==
    /\ update_result' = "false"
    /\ stdout' = Append(stdout, "failed_to_update")
    /\ Exit(1)

\* update_readme: open() or read() of README.md raises (lines 117-118, 149-151)
UpdateReadmeUnreadable ==
    /\ script = "updater" /\ pc = "update"
    /\ stderr' = Append(stderr, "error_updating")
    /\ caught' = caught \cup {"update_readme_read"}
    /\ UpdateFailed
    /\ UNCHANGED <<script, envVars, readme, readme_at_start, readme_writes,
                   template_file, new_files, events, prev_success, anagramVars, smokeVars>>

\* update_readme: a marker is missing (lines 124-129)
UpdateReadmeMarkersMissing ==
    /\ script = "updater" /\ pc = "update"
    /\ ~MarkersFound(readme)
    /\ events' = Append(events, "read_readme")
    /\ stderr' = Append(stderr, "markers_not_found")
    /\ caught' = caught \cup {"markers_missing"}
    /\ UpdateFailed
    /\ UNCHANGED <<script, envVars, readme, readme_at_start, readme_writes,
                   template_file, new_files, prev_success, anagramVars, smokeVars>>

\* what generate_alphabetical_section's extract_file_description calls catch
SectionCaught(d) ==
    IF \E f \in Globbed(d) : ExtractWarns(f) THEN {"source_file_read"} ELSE {}

\* update_readme: the section is generated, then opening README.md for
\* writing raises (lines 132-143, 149-151)
UpdateReadmeUnwritable ==
    /\ script = "updater" /\ pc = "update"
    /\ MarkersFound(readme)
    /\ events' = Append(events, "read_readme")
    /\ stderr' = (stderr \o ExtractWarnings(get_all_source_files(dir)))
                    \o <<"error_updating">>
    /\ caught' = caught \cup SectionCaught(dir) \cup {"update_readme_write"}
    /\ UpdateFailed
    /\ UNCHANGED <<script, envVars, readme, readme_at_start, readme_writes,
                   template_file, new_files, prev_success, anagramVars, smokeVars>>

\* update_readme rewrites README.md and returns True (lines 116-147)
UpdateReadmeSucceeds ==
    /\ script = "updater" /\ pc = "update"
    /\ MarkersFound(readme)
    /\ readme' = NewContent(readme, dir)
    /\ readme_writes' = readme_writes + 1
    /\ events' = events \o <<"read_readme", "write_readme">>
    /\ stderr' = stderr \o ExtractWarnings(get_all_source_files(dir))
    /\ caught' = caught \cup SectionCaught(dir)
    /\ stdout' = stdout \o <<"updated", "updated_successfully">>
    /\ update_result' = "true"
    /\ pc' = "template"
    /\ UNCHANGED <<script, exit_code, envVars, readme_at_start, template_file,
                   new_files, prev_success, anagramVars, smokeVars>>

\* main, lines 253-286 with new files: the template is written, the summary
\* printed, 0 returned
MainWriteTemplate ==
    /\ script = "updater" /\ pc = "template"
    /\ new_files # <<>>
    /\ template_file' = <<generate_index_template(new_files, dir)>>
    /\ events' = Append(events, "write_template")
    /\ stderr' = stderr \o ExtractWarnings(EntriesNamed(new_files, dir))
    /\ caught' = caught \cup
                    (IF \E i \in 1..Len(new_files) : ExtractWarns(EntryNamed(dir, new_files[i]))
                     THEN {"source_file_read"} ELSE {})
    /\ stdout' = stdout \o <<"template_saved", "summary">>
    /\ Exit(0)
    /\ UNCHANGED <<script, envVars, readme, readme_at_start, readme_writes,
                   new_files, update_result, prev_success, anagramVars, smokeVars>>

\* mutant: the template is written whether or not there are new files
MainNoTemplate_WritesEmpty ==
    /\ script = "updater" /\ pc = "template"
    /\ new_files = <<>>
    /\ template_file' = << generate_index_template(new_files, dir) >>
    /\ events' = Append(events, "write_template")
    /\ stdout' = stdout \o <<"template_saved", "summary">>
    /\ Exit(0)
    /\ UNCHANGED <<script, stderr, caught, envVars, readme, readme_at_start,
                   readme_writes, new_files, update_result, prev_success,
                   anagramVars, smokeVars>>

\* main, lines 253-286 without new files: the summary printed, 0 returned
MainNoTemplate ==
    /\ script = "updater" /\ pc = "template"
    /\ new_files = <<>>
    /\ stdout' = Append(stdout, "summary")
    /\ Exit(0)
    /\ UNCHANGED <<script, stderr, caught, envVars, readme, readme_at_start,
                   readme_writes, template_file, new_files, update_result, events,
                   prev_success, anagramVars, smokeVars>>

\* the script is started again in the same project, nothing else having
\* touched the project's files
RunAgain ==
    /\ script = "updater" /\ pc = "exit"
    /\ Len(readme) <= MaxReadmeLen
    /\ prev_success' = (prev_success \/ update_result = "true")
    /\ pc' = "start"
    /\ exit_code' = -1
    /\ stdout' = <<>>
    /\ stderr' = <<>>
    /\ caught' = {}
    /\ readme_at_start' = readme
    /\ readme_writes' = 0
    /\ new_files' = <<>>
    /\ update_result' = "none"
    /\ events' = <<>>
    /\ UNCHANGED <<script, envVars, readme, template_file, anagramVars, smokeVars>>

\* ------------------------------------------------------ anagram script

\* line 9: the dict comprehension
BuildPairs ==
    /\ script = "anagram" /\ pc = "pairs"
    /\ Pairs' = PairsFrom(mDictionary)
    /\ stdout' = Append(stdout, "pairs_printed")
    /\ pc' = "group"
    /\ UNCHANGED <<script, exit_code, stderr, caught, updaterVars, Anagrams, idx, smokeVars>>

\* lines 17-19: one iteration of the loop over Pairs.items()
GroupStep ==
    /\ script = "anagram" /\ pc = "group"
    /\ idx < Len(Pairs)
    /\ LET k == Pairs[idx + 1][1]
           v == Pairs[idx + 1][2]
       IN  Anagrams' = IF v \in Range(mDictionary)
                       THEN SetDefaultAppend(Anagrams, v, k)
                       ELSE Anagrams
    /\ idx' = idx + 1
    /\ UNCHANGED <<script, pc, exit_code, stdout, stderr, caught, updaterVars, Pairs,
                   smokeVars>>

\* lines 21-23: the groups are printed and the script ends
AnagramDone ==
    /\ script = "anagram" /\ pc = "group"
    /\ idx = Len(Pairs)
    /\ stdout' = Append(stdout, "anagrams_printed")
    /\ Exit(0)
    /\ UNCHANGED <<script, stderr, caught, updaterVars, anagramVars, smokeVars>>

\* --------------------------------------------------------- smoke test

\* mutant: the ImportError handler prints the hint and main goes on
SmokeImportFails_GoesOn ==
    /\ script = "smoke" /\ pc = "import"
    /\ ~import_ok
    /\ stdout' = stdout \o <<"error_module_not_found", "build_hint">>
    /\ caught' = caught \cup {"import_failed"}
    /\ pc' = SectionPc[1]
    /\ UNCHANGED <<script, exit_code, stderr, updaterVars, anagramVars, smokeVars>>

\* lines 11-20: the import raises ImportError
SmokeImportFails ==
    /\ script = "smoke" /\ pc = "import"
    /\ ~import_ok
    /\ stdout' = stdout \o <<"error_module_not_found", "build_hint">>
    /\ caught' = caught \cup {"import_failed"}
    /\ Exit(1)
    /\ UNCHANGED <<script, stderr, updaterVars, anagramVars, smokeVars>>

\* lines 11-24: the import succeeds
SmokeImportOk ==
    /\ script = "smoke" /\ pc = "import"
    /\ import_ok
    /\ stdout' = Append(stdout, "banner")
    /\ pc' = SectionPc[1]
    /\ UNCHANGED <<script, exit_code, stderr, caught, updaterVars, anagramVars, smokeVars>>

\* section n of main ran its calls: main goes on, or an exception of the
\* native module ends the process with a traceback
AfterSection(n, made) ==
    /\ calls' = calls \o made
    /\ IF made = SectionCalls[n] /\ SectionCompletes(SectionCalls[n])
       THEN /\ stdout' = Append(stdout, SectionPc[n])
            /\ pc' = SectionPc[n + 1]
            /\ UNCHANGED <<exit_code, stderr>>
       ELSE /\ stderr' = Append(stderr, "traceback")
            /\ Exit(1)
            /\ UNCHANGED stdout

\* sections 1 to 6 and 8 (lines 29-168, 212-220)
SmokeSection ==
    /\ script = "smoke"
    /\ \E n \in {1, 2, 3, 4, 5, 6, 8} :
          /\ pc = SectionPc[n]
          /\ AfterSection(n, CallsMade(SectionCalls[n]))
    /\ UNCHANGED <<script, caught, updaterVars, anagramVars, import_ok, numpy_ok>>

\* section 7 with numpy (lines 173-201)
SmokeNumpy ==
    /\ script = "smoke" /\ pc = SectionPc[7]
    /\ numpy_ok
    /\ AfterSection(7, CallsMade(SectionCalls[7]))
    /\ UNCHANGED <<script, caught, updaterVars, anagramVars, import_ok, numpy_ok>>

\* section 7 without numpy (lines 173-174, 203-207)
SmokeNumpySkipped ==
    /\ script = "smoke" /\ pc = SectionPc[7]
    /\ ~numpy_ok
    /\ stdout' = Append(stdout, "numpy_skipped")
    /\ caught' = caught \cup {"numpy_import_failed"}
    /\ pc' = SectionPc[8]
    /\ UNCHANGED <<script, exit_code, stderr, updaterVars, anagramVars, smokeVars>>

\* lines 222-224: main returns and the interpreter exits with 0
SmokeFinish ==
    /\ script = "smoke" /\ pc = "finish"
    /\ stdout' = Append(stdout, "ALL TESTS PASSED!")
    /\ Exit(0)
    /\ UNCHANGED <<script, stderr, caught, updaterVars, anagramVars, smokeVars>>

\* ---------------------------------------------------------- specification

Next ==
    \/ MainSrcMissing
    \/ MainReadmeMissing
    \/ MainCheckNewFiles
    \/ MainCheckNewFilesUnreadable
    \/ UpdateReadmeUnreadable
    \/ UpdateReadmeMarkersMissing
    \/ UpdateReadmeUnwritable
    \/ UpdateReadmeSucceeds
    \/ MainWriteTemplate
    \/ MainNoTemplate
    \/ RunAgain
    \/ BuildPairs
    \/ GroupStep
    \/ AnagramDone
    \/ SmokeImportFails
    \/ SmokeImportOk
    \/ SmokeSection
    \/ SmokeNumpy
    \/ SmokeNumpySkipped
    \/ SmokeFinish

Spec == Init /\ [][Next]_vars

\* ------------------------------------------------------------------ claims

\* the run is update_documentation.py and main has returned
UpdaterExited == script = "updater" /\ pc = "exit"

HasStartMarker(content) == Find(content, start_marker) # -1
HasEndMarker(content) == Find(content, end_marker) # -1

\* what update_readme puts between the kept parts of the README
WrittenSection(d) == generate_alphabetical_section(d) \o <<"\n","-","-","-","\n","\n">>

\* C1: whenever update_readme has rewritten a README holding both markers,
\* wherever they stand, the file now on disk is the input with just the span
\* from the start marker up to the end marker replaced: the span is a span
\* (the start marker does not come after the end marker), the input before
\* it and the input from the end marker on are kept once each, in order,
\* and nothing else of the input is kept.
C1_OnlySpanReplaced ==
    (script = "updater" /\ update_result = "true") =>
        LET s == Find(readme_at_start, start_marker)
            e == Find(readme_at_start, end_marker)
        IN  /\ s <= e
            /\ readme = SubSeq(readme_at_start, 1, s)
                            \o WrittenSection(dir)
                            \o SubSeq(readme_at_start, e + 1, Len(readme_at_start))
            /\ Len(readme) - Len(WrittenSection(dir)) = Len(readme_at_start) - (e - s)

\* C2: when update_readme is called on a README lacking the start marker or
\* the end marker, README.md is not opened for writing and keeps its content,
\* an error is printed to the error stream, update_readme returns False, and
\* main writes no INDEX_UPDATE_TEMPLATE.txt and returns 1.
C2_MissingMarkerLeavesReadme ==
    (script = "updater" /\ update_result # "none") =>
        \/ /\ readme = readme_at_start
           /\ readme_writes = 0
           /\ "write_readme" \notin Range(events)
           /\ update_result = "false"
           /\ stderr # <<>>
           /\ stderr[Len(stderr)] \in {"markers_not_found", "error_updating"}
           /\ ("update_readme_read" \notin caught => stderr[Len(stderr)] = "markers_not_found")
           /\ "write_template" \notin Range(events)
           /\ pc = "exit"
           /\ exit_code = 1
        \/ HasStartMarker(readme_at_start) /\ HasEndMarker(readme_at_start)

\* C2 witness: main has returned after update_readme met a README without
\* its end marker although new files had been found
C2_Witness ==
    /\ UpdaterExited
    /\ "markers_missing" \in caught
    /\ HasStartMarker(readme_at_start)
    /\ new_files # <<>>

\* C3: when main of the updater has returned, the exit code is 0 or 1, and
\* it is 0 exactly when src/ exists, README.md exists, the README held the
\* start marker and the end marker, and the README was rewritten.
C3_ExitCode ==
    UpdaterExited =>
        /\ exit_code \in {0, 1}
        /\ (exit_code = 0) <=>
              ( /\ src_exists
                /\ readme_exists
                /\ "write_readme" \in Range(events)
                /\ HasStartMarker(readme_at_start)
                /\ HasEndMarker(readme_at_start) )

\* C3 witness: main returned 0 after a rewrite that changed the README and
\* after the template was written
C3_Witness ==
    /\ UpdaterExited
    /\ exit_code = 0
    /\ readme # readme_at_start
    /\ new_files # <<>>

\* how often the character c occurs in the word w
Count(c, w) == Cardinality({i \in 1..Len(w) : w[i] = c})

\* a and b are made of the same letters, each as often
SameLetters(a, b) ==
    /\ Len(a) = Len(b)
    /\ \A c \in Range(a) \cup Range(b) : Count(c, a) = Count(c, b)

\* s is the sorted-character signature of w
IsSignatureOf(s, w) ==
    /\ SameLetters(s, w)
    /\ \A i \in 1..Len(s) : \A j \in i..Len(s) : CodePoint(s[i]) <= CodePoint(s[j])

InSameList(a, b) ==
    \E i \in 1..Len(Anagrams) :
        a \in Range(Anagrams[i][2]) /\ b \in Range(Anagrams[i][2])

SignatureInDictionary(w) == \E s \in Range(mDictionary) : IsSignatureOf(s, w)

\* C4: when the anagram script has ended, two dictionary words stand in the
\* same list of Anagrams if and only if they have the same signature and
\* that signature is a dictionary word; every key of Anagrams is a
\* dictionary word and the signature of each word listed under it, and a
\* word whose signature is no dictionary word stands in no list.
C4_AnagramGroups ==
    (script = "anagram" /\ pc = "exit") =>
        /\ \A a \in Range(mDictionary) : \A b \in Range(mDictionary) :
              InSameList(a, b) <=> (SameLetters(a, b) /\ SignatureInDictionary(a))
        /\ \A i \in 1..Len(Anagrams) :
              /\ Anagrams[i][1] \in Range(mDictionary)
              /\ \A w \in Range(Anagrams[i][2]) : IsSignatureOf(Anagrams[i][1], w)
        /\ \A w \in Range(mDictionary) :
              ~SignatureInDictionary(w) => ~InSameList(w, w)

\* C4 witness: the script has ended with "act" and "cat" listed under "act"
\* and "dog", whose signature "dgo" is no dictionary word, listed nowhere
C4_Witness ==
    /\ script = "anagram" /\ pc = "exit"
    /\ \E i \in 1..Len(Anagrams) :
          /\ Anagrams[i][1] = <<"a","c","t">>
          /\ Anagrams[i][2] = << <<"a","c","t">>, <<"c","a","t">> >>
    /\ ~InSameList(<<"d","o","g">>, <<"d","o","g">>)
    /\ ~InSameList(<<"g","o","d">>, <<"d","o","g">>)

\* the failures that make the updater return 1
UpdaterTerminal ==
    {"src_missing", "readme_missing", "markers_missing", "update_readme_read",
     "update_readme_write"}

\* the message the updater prints to the error stream for a terminal failure
ErrorMessage(failure) ==
    CASE failure = "src_missing" -> "src_not_found"
      [] failure = "readme_missing" -> "readme_not_found"
      [] failure = "markers_missing" -> "markers_not_found"
      [] failure \in {"update_readme_read", "update_readme_write"} -> "error_updating"

\* C5 as stated: whenever a run has met a caught exception or a failed
\* precondition check, it ends with a message on the error stream and a
\* non-zero exit status; no run that met one exits 0.
C5_EveryFailureTerminal ==
    (pc = "exit" /\ caught # {}) => (exit_code # 0 /\ stderr # <<>>)

\* C5 as amended: only some failures are terminal.  In the updater a
\* missing src/, a missing README.md, missing markers and an exception caught
\* in update_readme print their message to the error stream and main returns
\* 1; an exception caught in extract_file_description or in check_new_files
\* prints a warning to the error stream and the run goes on, returning 0
\* unless one of the terminal failures follows.  In the smoke test a failed
\* import of the native module prints the error and the build hint to
\* standard output, nothing to the error stream, and exits with 1 before any
\* call; a failed import of numpy prints the skip notice and main goes on.
C5_TerminalFailures ==
    /\ (UpdaterExited /\ caught \cap UpdaterTerminal # {}) =>
          /\ exit_code = 1
          /\ stderr # <<>>
          /\ \E f \in caught \cap UpdaterTerminal : stderr[Len(stderr)] = ErrorMessage(f)
    /\ (UpdaterExited /\ caught \cap UpdaterTerminal = {}) =>
          /\ exit_code = 0
          /\ "source_file_read" \in caught => "warn_could_not_read" \in Range(stderr)
          /\ "check_new_files_read" \in caught => "warn_could_not_check" \in Range(stderr)
    /\ (script = "smoke" /\ "import_failed" \in caught) =>
          /\ pc = "exit"
          /\ exit_code = 1
          /\ stderr = <<>>
          /\ "build_hint" \in Range(stdout)
          /\ calls = <<>>
    /\ (script = "smoke" /\ "numpy_import_failed" \in caught) =>
          /\ "numpy_skipped" \in Range(stdout)
          /\ pc = SectionPc[8] => exit_code = -1

\* C5 witness: the updater returned 0 although check_new_files could not read
\* the README and extract_file_description could not read a source file
C5_Witness ==
    /\ UpdaterExited
    /\ caught = {"source_file_read", "check_new_files_read"}
    /\ exit_code = 0

\* every demonstration call of main, in order, section 7 left out without numpy
AllCalls(with_numpy) ==
    SectionCalls[1] \o SectionCalls[2] \o SectionCalls[3] \o SectionCalls[4]
    \o SectionCalls[5] \o SectionCalls[6]
    \o (IF with_numpy THEN SectionCalls[7] ELSE <<>>)
    \o SectionCalls[8]

\* C6: the smoke test ends in one of two ways.  If the import of the native
\* module fails it has printed the error and the build hint, made no
\* demonstration call and exits with 1.  Otherwise it has made every
\* demonstration call of sections 1 to 8 in order (section 7 replaced by the
\* skip notice when numpy is missing), printed "ALL TESTS PASSED!" last and
\* exits with 0.  No run ends after only some of the calls.
C6_TwoOutcomes ==
    (script = "smoke" /\ pc = "exit") =>
        IF import_ok
        THEN /\ exit_code = 0
             /\ calls = AllCalls(numpy_ok)
             /\ stdout[Len(stdout)] = "ALL TESTS PASSED!"
             /\ \A n \in {1, 2, 3, 4, 5, 6, 8} : SectionPc[n] \in Range(stdout)
             /\ numpy_ok <=> SectionPc[7] \in Range(stdout)
             /\ ~numpy_ok <=> "numpy_skipped" \in Range(stdout)
        ELSE /\ exit_code = 1
             /\ calls = <<>>
             /\ stdout = <<"error_module_not_found", "build_hint">>

\* C6 witness: the smoke test has ended with the native module imported and
\* numpy missing
C6_Witness ==
    /\ script = "smoke" /\ pc = "exit"
    /\ import_ok
    /\ ~numpy_ok
    /\ Len(calls) > 0

\* the text "[name]" occurs in content
HasLinkText(content, name) == Find(content, <<"[">> \o name \o <<"]">>) # -1

\* C7: when check_new_files has read the README, the list it returned holds
\* exactly the .cpp/.cppm file names of src/ for which the README has no
\* link text "[name]", in sorted order; a file the README references is not
\* reported as new.
C7_SetDifference ==
    (script = "updater" /\ pc = "update" /\ "check_new_files_read" \notin caught) =>
        /\ \A f \in Globbed(dir) :
              (f.name \in Range(new_files)) <=> ~HasLinkText(readme, f.name)
        /\ Range(new_files) \subseteq {f.name : f \in Globbed(dir)}
        /\ \A i \in 1..Len(new_files) : \A j \in (i + 1)..Len(new_files) :
              StrLess(new_files[i], new_files[j])

\* C8: main has written INDEX_UPDATE_TEMPLATE.txt when it returns if and
\* only if check_new_files found new files and update_readme returned True;
\* the template is written after the README was rewritten, which is after
\* check_new_files read it, so new_files is computed from the README as it
\* was when the run started.
C8_TemplateAfterUpdate ==
    /\ UpdaterExited =>
          ("write_template" \in Range(events)) <=>
              (new_files # <<>> /\ update_result = "true")
    /\ (script = "updater" /\ "write_template" \in Range(events)) =>
          /\ events = <<"read_readme", "read_readme", "write_readme", "write_template">>
          /\ template_file # <<>>
          /\ template_file[1] # <<>>
    /\ ( /\ script = "updater"
         /\ "write_readme" \in Range(events)
         /\ "check_new_files_read" \notin caught ) =>
          new_files = NewFiles(dir, readme_at_start)

\* C8 witness: main returned with the template written for files that the
\* rewritten README now lists
C8_Witness ==
    /\ UpdaterExited
    /\ "write_template" \in Range(events)
    /\ NewFiles(dir, readme) # new_files

IsEntryLine(l) == l # <<>> /\ l[1] \in DigitSet

IsHeadingLine(l) == Len(l) > 4 /\ SubSeq(l, 1, 4) = <<"#","#","#"," ">>

\* the upper-cased first character of the file name an entry line links
EntryLetter(l) == UpperChar(l[Find(l, <<"[">>) + 2])

\* C9: in the section generate_alphabetical_section builds, every source
\* file has exactly one entry, the entries are numbered 1..n in order, they
\* stand in case-insensitive order of file name, each letter heading occurs
\* once, there is one per upper-cased first character, and it stands right
\* before the first entry with that first character.
C9_SectionLayout ==
    (script = "updater" /\ update_result = "true") =>
        LET out == SectionOutput(dir)
            files == Globbed(dir)
            entries == SelectSeq(out, IsEntryLine)
            headings == SelectSeq(out, IsHeadingLine)
        IN  /\ Len(entries) = Cardinality(files)
            /\ \A i \in 1..Len(entries) : \E f \in files : entries[i] = EntryLine(i, f.name)
            /\ \A f \in files :
                  Cardinality({i \in 1..Len(entries) : entries[i] = EntryLine(i, f.name)}) = 1
            /\ \A i \in 1..Len(entries) : \A j \in (i + 1)..Len(entries) :
                  \A f \in files : \A g \in files :
                      (entries[i] = EntryLine(i, f.name) /\ entries[j] = EntryLine(j, g.name))
                          => ~StrLess(Lower(g.name), Lower(f.name))
            /\ \A i \in 1..Len(headings) : \A j \in (i + 1)..Len(headings) :
                  headings[i] # headings[j]
            /\ Range(headings) = {LetterHeading(UpperChar(f.name[1])) : f \in files}
            /\ \A k \in 1..Len(out) :
                  ( /\ IsEntryLine(out[k])
                    /\ \A m \in 1..(k - 1) :
                          IsEntryLine(out[m]) => EntryLetter(out[m]) # EntryLetter(out[k]) )
                      => (k > 1 /\ out[k - 1] = LetterHeading(EntryLetter(out[k])))

\* C10: a README that update_readme has rewritten holds both markers, and
\* in a run that follows a run in which update_readme returned True the
\* marker check does not fail.
C10_MarkersSurvive ==
    /\ (script = "updater" /\ update_result = "true") =>
          (HasStartMarker(readme) /\ HasEndMarker(readme))
    /\ (script = "updater" /\ prev_success) =>
          /\ "markers_missing" \notin caught
          /\ "markers_not_found" \notin Range(stderr)
          /\ (pc = "start" => (HasStartMarker(readme) /\ HasEndMarker(readme)))

\* C10 witness: update_readme has run again after a run in which it returned True
C10_Witness ==
    /\ UpdaterExited
    /\ prev_success
    /\ update_result = "true"

\* some description or key item that generate_alphabetical_section writes
\* for a file of d holds the text of a marker
SectionQuotesMarker(d) ==
    \E f \in Globbed(d) : \E t \in {Description(f)} \cup Range(Prefix(KeyItems(f), 2)) :
        Find(t, start_marker) # -1 \/ Find(t, end_marker) # -1

\* C11: update_readme is idempotent for an unchanged source directory: when
\* update_readme rewrites a README that an earlier run of update_readme has
\* rewritten, the README keeps its content, the markers are found where they
\* were, and the file does not grow.
C11_Idempotent ==
    (script = "updater" /\ prev_success /\ update_result = "true") =>
        /\ readme = readme_at_start
        /\ Len(readme) = Len(readme_at_start)
        /\ Find(readme, start_marker) = Find(readme_at_start, start_marker)
        /\ Find(readme, end_marker) = Find(readme_at_start, end_marker)

====
